---- MODULE Spec2Model ----
(***************************************************************************)
(* Model of the snippet store of src/main.go: HTTP requests handled by     *)
(* handleSnippets, the read path getSnippets/getSnippetFromKey (memcache   *)
(* in front of the datastore) and the write path postSnippets (a datastore *)
(* transaction that gets or creates the entity, then a memcache set).      *)
(*                                                                         *)
(* Every memcache and datastore call is one step of a request, so requests *)
(* interleave at exactly the points where the Go code blocks on an RPC.    *)
(* A transaction attempt is two steps: TxRun runs the function passed to   *)
(* datastore.RunInTransaction against the snapshot it reads (its Put is    *)
(* buffered), TxCommit is the commit RPC, which applies the buffered Put   *)
(* only if the entity group has not changed since the snapshot.            *)
(***************************************************************************)
EXTENDS Integers, Sequences, FiniteSets, TLC

\* ---------------------------------------------------------------- bounds
NumRequests == 3

Procs == 1..NumRequests

\* ------------------------------------------------------------- constants
maxContentSizeInBytes == 10 * 1024

\* datastore.RunInTransaction with nil options makes three attempts.
TxAttempts == 3

\* sha256.Sum256 returns a [32]byte.
Size == 32

\* ------------------------------------------------------------ byte data
\* A request body is a run of `len` bytes of value `fill`.
Content(l, f) == [len |-> l, fill |-> f]

NilContent == Content(0, 0)

Contents ==
    { Content(1, 97),
      Content(maxContentSizeInBytes, 97),
      Content(maxContentSizeInBytes + 1, 97) }

\* A digest that ignores its input (a key derivation that collides).
Sum256Const(c) == [i \in 1..Size |-> 0]

\* Stand-in for SHA-256: a 32-byte digest that is injective on Contents
\* (the length and the fill byte are spelled out in the first three bytes).
Sum256(c) ==
    [i \in 1..Size |->
        CASE i = 1 -> (c.len \div 256) % 256
          [] i = 2 -> c.len % 256
          [] i = 3 -> c.fill % 256
          [] OTHER -> (7 * i + c.len + c.fill) % 256]

HexDigits == <<"0", "1", "2", "3", "4", "5", "6", "7",
               "8", "9", "a", "b", "c", "d", "e", "f">>

\* fmt.Sprintf("%x", digest): two lowercase hex digits per byte.
Sprintfx(b) ==
    [i \in 1..(2 * Len(b)) |->
        IF i % 2 = 1
        THEN HexDigits[(b[(i + 1) \div 2] \div 16) + 1]
        ELSE HexDigits[(b[i \div 2] % 16) + 1]]

KeyName(c) == Sprintfx(Sum256(c))

\* Key names that requests may ask for: those of the bodies within the limit.
KeyNames == { KeyName(c) : c \in { d \in Contents : d.len <= maxContentSizeInBytes } }

RootPath == <<"/">>

Paths == { RootPath } \cup { RootPath \o k : k \in KeyNames }

\* Methods of the modelled requests (handleSnippets treats HEAD as GET).
Methods == { "GET", "POST", "DELETE" }

\* ------------------------------------------------------------- entities
\* type Snippet struct { CreatedAt time.Time; Content []uint8 }
Snippet(t, c) == [CreatedAt |-> t, Content |-> c]

ZeroSnippet == Snippet(0, NilContent)

\* Absence of an entity in the datastore, of an item in memcache.
None == [CreatedAt |-> -1, Content |-> NilContent]

\* Response bodies: the content of a snippet, a key name, the test form,
\* or the text of http.Error / http.NotFound.
ContentBody(c) == [kind |-> "content", content |-> c, key |-> <<>>]
KeyBody(k) == [kind |-> "key", content |-> NilContent, key |-> k]
FormBody == [kind |-> "form", content |-> NilContent, key |-> <<>>]
ErrorBody == [kind |-> "error", content |-> NilContent, key |-> <<>>]
NoBody == [kind |-> "", content |-> NilContent, key |-> <<>>]

VARIABLES
    store,      \* datastore: key name -> Snippet or None
    version,    \* datastore: commit count of each key's entity group
    cache,      \* memcache: key name -> Snippet or None
    clock,      \* time.Now()
    pc,         \* position of each request
    method,     \* r.Method
    path,       \* r.URL.Path
    content,    \* the request body read by postSnippets
    keyName,    \* keyName of getSnippets / postSnippets
    s,          \* the *Snippet a request holds
    created,    \* postSnippets' created flag
    attempt,    \* RunInTransaction's loop counter
    snapVer,    \* entity group version the running attempt read at
    txPut,      \* whether the running attempt has a buffered Put
    status,     \* HTTP status written, 0 while the request runs
    body,       \* response body
    before,     \* history: requests that had returned when this one arrived
    arrVer,     \* history: version of the key's entity group when a read arrived
    failedAt,   \* history: the backend call of this request that failed, or ""
    via,        \* history: where a read found its snippet: "cache", "datastore"
    wrote       \* history: this request's committed attempt wrote the entity

vars == <<store, version, cache, clock, pc, method, path, content, keyName, s,
          created, attempt, snapVer, txPut, status, body, before, arrVer,
          failedAt, via, wrote>>

backend == <<store, version, cache, clock>>
request == <<method, path, content, keyName, before, arrVer>>
txn     == <<created, attempt, snapVer, txPut, wrote>>

Init ==
    /\ store = [k \in KeyNames |-> None]
    /\ version = [k \in KeyNames |-> 0]
    /\ cache = [k \in KeyNames |-> None]
    /\ clock = 1
    /\ pc = [p \in Procs |-> "idle"]
    /\ method = [p \in Procs |-> ""]
    /\ path = [p \in Procs |-> <<>>]
    /\ content = [p \in Procs |-> NilContent]
    /\ keyName = [p \in Procs |-> <<>>]
    /\ s = [p \in Procs |-> ZeroSnippet]
    /\ created = [p \in Procs |-> FALSE]
    /\ attempt = [p \in Procs |-> 0]
    /\ snapVer = [p \in Procs |-> 0]
    /\ txPut = [p \in Procs |-> FALSE]
    /\ status = [p \in Procs |-> 0]
    /\ body = [p \in Procs |-> NoBody]
    /\ before = [p \in Procs |-> {}]
    /\ arrVer = [p \in Procs |-> 0]
    /\ failedAt = [p \in Procs |-> ""]
    /\ via = [p \in Procs |-> ""]
    /\ wrote = [p \in Procs |-> FALSE]

Done == { p \in Procs : pc[p] = "done" }

\* http.Error / WriteHeader + Write: the request returns.
Respond(p, code, b) ==
    /\ pc' = [pc EXCEPT ![p] = "done"]
    /\ status' = [status EXCEPT ![p] = code]
    /\ body' = [body EXCEPT ![p] = b]

\* A backend call of the request returns an error.
Fail(p, call) == failedAt' = [failedAt EXCEPT ![p] = call]

\* A request arrives: the requests that have already returned are recorded.
\* Requests are numbered in the order of their arrival.
Arrive(p, m, pa) ==
    /\ pc[p] = "idle"
    /\ \A q \in Procs : q < p => pc[q] # "idle"
    /\ method' = [method EXCEPT ![p] = m]
    /\ path' = [path EXCEPT ![p] = pa]
    /\ before' = [before EXCEPT ![p] = Done]

\* --------------------------------------------------------------- reads
\* handleSnippets -> getSnippets with a key in the path: up to the call of
\* memcache.Gob.Get in getSnippetFromKey.
GetSnippets(p) ==
    \E m \in Methods \cap {"GET", "HEAD"}, pa \in Paths :
        /\ Arrive(p, m, pa)
        /\ Len(pa) > 1
        /\ keyName' = [keyName EXCEPT ![p] = Tail(pa)]
        /\ arrVer' = [arrVer EXCEPT ![p] = version[Tail(pa)]]
        /\ s' = [s EXCEPT ![p] = ZeroSnippet]
        /\ pc' = [pc EXCEPT ![p] = "cacheGet"]
        /\ UNCHANGED <<backend, content, txn, status, body, failedAt, via>>

\* handleSnippets -> getSnippets on "/": the test form on the development
\* server, 404 elsewhere.
GetRoot(p) ==
    \E m \in Methods \cap {"GET", "HEAD"}, isDevAppServer \in BOOLEAN :
        /\ Arrive(p, m, RootPath)
        /\ IF isDevAppServer
           THEN Respond(p, 200, FormBody)
           ELSE Respond(p, 404, ErrorBody)
        /\ UNCHANGED <<backend, content, keyName, arrVer, s, txn, failedAt, via>>

\* What memcache.Gob.Get may return for an item: nil with the item,
\* ErrCacheMiss without one, or another error at any time.
MemcacheGetErrs(item) ==
    (IF item # None THEN {"nil"} ELSE {"ErrCacheMiss"}) \cup {"other"}

\* What datastore.Get may return for an entity.
DatastoreGetErrs(ent) ==
    (IF ent # None THEN {"nil"} ELSE {"ErrNoSuchEntity"}) \cup {"other"}

\* What memcache.Gob.Set, datastore.Put and ioutil.ReadAll may return.
CallErrs == {"nil", "other"}

\* A lookup that ignores a hit and always goes on to the datastore.
OnCacheGetSkip(err) ==
    IF err = "other" THEN "error" ELSE "dsGet"

\* getSnippetFromKey after memcache.Gob.Get: nil returns the snippet,
\* ErrCacheMiss goes on to the datastore, any other error is returned.
OnCacheGet(err) ==
    IF err = "nil" THEN "return"
    ELSE IF err # "ErrCacheMiss" THEN "error"
    ELSE "dsGet"

\* getSnippetFromKey after datastore.Get: ErrNoSuchEntity returns nil, nil;
\* another error is returned; an entity goes on to memcache.Gob.Set.
OnDatastoreGet(err) ==
    IF err # "nil"
    THEN IF err = "ErrNoSuchEntity" THEN "notFound" ELSE "error"
    ELSE "cacheSet"

\* getSnippetFromKey after memcache.Gob.Set: an error is returned.
OnCacheSet(err) ==
    IF err # "nil" THEN "error" ELSE "return"

\* A set that stores nothing.
SetItemDropped(c, k, obj) == c

\* memcache.Gob.Set of the item {Key: k, Object: obj}.
SetItem(c, k, obj) == [c EXCEPT ![k] = obj]

\* getSnippets with what getSnippetFromKey returned: 500 on an error, 404 on
\* no snippet, else the content.
Answer(p, sn, err) ==
    IF err THEN Respond(p, 500, ErrorBody)
    ELSE IF sn = None THEN Respond(p, 404, ErrorBody)
    ELSE Respond(p, 200, ContentBody(sn.Content))

\* memcache.Gob.Get returns.
CacheGet(p) ==
    /\ pc[p] = "cacheGet"
    /\ \E err \in MemcacheGetErrs(cache[keyName[p]]) :
        LET to == OnCacheGet(err)
        IN  \/ /\ to = "return"
               /\ s' = [s EXCEPT ![p] = cache[keyName[p]]]
               /\ via' = [via EXCEPT ![p] = "cache"]
               /\ Answer(p, cache[keyName[p]], FALSE)
               /\ UNCHANGED failedAt
            \/ /\ to = "dsGet"
               /\ pc' = [pc EXCEPT ![p] = "dsGet"]
               /\ UNCHANGED <<s, status, body, failedAt, via>>
            \/ /\ to = "error"
               /\ Answer(p, None, TRUE)
               /\ Fail(p, "memcache.Get")
               /\ UNCHANGED <<s, via>>
    /\ UNCHANGED <<backend, request, txn>>

\* datastore.Get returns.
DatastoreGet(p) ==
    /\ pc[p] = "dsGet"
    /\ \E err \in DatastoreGetErrs(store[keyName[p]]) :
        LET to == OnDatastoreGet(err)
        IN  \/ /\ to = "cacheSet"
               /\ s' = [s EXCEPT ![p] = store[keyName[p]]]
               /\ via' = [via EXCEPT ![p] = "datastore"]
               /\ pc' = [pc EXCEPT ![p] = "cacheSet"]
               /\ UNCHANGED <<status, body, failedAt>>
            \/ /\ to = "notFound"
               /\ Answer(p, None, FALSE)
               /\ UNCHANGED <<s, failedAt, via>>
            \/ /\ to = "error"
               /\ Answer(p, None, TRUE)
               /\ Fail(p, "datastore.Get")
               /\ UNCHANGED <<s, via>>
    /\ UNCHANGED <<backend, request, txn>>

\* memcache.Gob.Set of getSnippetFromKey returns.
CacheSet(p) ==
    /\ pc[p] = "cacheSet"
    /\ \E err \in CallErrs :
        LET to == OnCacheSet(err)
        IN  /\ cache' = IF err = "nil" THEN SetItem(cache, keyName[p], s[p]) ELSE cache
            /\ \/ /\ to = "return"
                  /\ Answer(p, s[p], FALSE)
                  /\ UNCHANGED failedAt
               \/ /\ to = "error"
                  /\ Answer(p, None, TRUE)
                  /\ IF err = "nil" THEN UNCHANGED failedAt ELSE Fail(p, "memcache.Set")
    /\ UNCHANGED <<store, version, clock, request, s, txn, via>>

\* -------------------------------------------------------------- writes
\* A size check that also rejects a body of exactly the limit.
TooBigOffByOne(c) == c.len >= maxContentSizeInBytes

\* postSnippets' size check: len(content) > maxContentSizeInBytes.
TooBig(c) == c.len > maxContentSizeInBytes

\* handleSnippets -> postSnippets up to the call of RunInTransaction: the
\* path check, ioutil.ReadAll, the size check and the key derivation.
PostSnippets(p) ==
    \E pa \in Paths, c \in Contents, readErr \in CallErrs :
        /\ Arrive(p, "POST", pa)
        /\ IF pa # RootPath
           THEN /\ Respond(p, 404, ErrorBody)
                /\ UNCHANGED <<content, keyName, failedAt>>
           ELSE IF readErr # "nil"
           THEN /\ Respond(p, 400, ErrorBody)
                /\ Fail(p, "ReadAll")
                /\ UNCHANGED <<content, keyName>>
           ELSE IF TooBig(c)
           THEN /\ Respond(p, 400, ErrorBody)
                /\ content' = [content EXCEPT ![p] = c]
                /\ UNCHANGED <<keyName, failedAt>>
           ELSE /\ content' = [content EXCEPT ![p] = c]
                /\ keyName' = [keyName EXCEPT ![p] = KeyName(c)]
                /\ pc' = [pc EXCEPT ![p] = "tx"]
                /\ UNCHANGED <<status, body, failedAt>>
        /\ UNCHANGED <<backend, arrVer, s, txn, via>>

\* Any other method: 405.
MethodNotAllowed(p) ==
    \E m \in Methods \ {"GET", "HEAD", "POST"}, pa \in Paths :
        /\ Arrive(p, m, pa)
        /\ Respond(p, 405, ErrorBody)
        /\ UNCHANGED <<backend, content, keyName, arrVer, s, txn, failedAt, via>>

\* The function without its early return on an existing entity: it always
\* puts a new snippet.
TxFuncAlwaysPut(sp, cr, ent, c, now, getErr, putErr) ==
    IF getErr = "other"
    THEN [s |-> sp, created |-> cr, put |-> FALSE, err |-> TRUE]
    ELSE IF putErr # "nil"
    THEN [s |-> Snippet(now, c), created |-> cr, put |-> FALSE, err |-> TRUE]
    ELSE [s |-> Snippet(now, c), created |-> TRUE, put |-> TRUE, err |-> FALSE]

\* The function without its datastore.Put: it returns nil on a missing
\* entity without storing one.
TxFuncNoPut(sp, cr, ent, c, now, getErr, putErr) ==
    IF getErr = "nil"
    THEN [s |-> ent, created |-> cr, put |-> FALSE, err |-> FALSE]
    ELSE IF getErr # "ErrNoSuchEntity"
    THEN [s |-> sp, created |-> cr, put |-> FALSE, err |-> TRUE]
    ELSE [s |-> Snippet(now, c), created |-> cr, put |-> FALSE, err |-> FALSE]

\* The function reading the existing entity into another variable: s keeps
\* what the previous attempt left in it.
TxFuncKeepS(sp, cr, ent, c, now, getErr, putErr) ==
    IF getErr = "nil"
    THEN [s |-> sp, created |-> cr, put |-> FALSE, err |-> FALSE]
    ELSE IF getErr # "ErrNoSuchEntity"
    THEN [s |-> sp, created |-> cr, put |-> FALSE, err |-> TRUE]
    ELSE IF putErr # "nil"
    THEN [s |-> Snippet(now, c), created |-> cr, put |-> FALSE, err |-> TRUE]
    ELSE [s |-> Snippet(now, c), created |-> TRUE, put |-> TRUE, err |-> FALSE]

\* The function passed to RunInTransaction, as it updates the variables it
\* captures (s, created), given the snippet and the flag as the previous
\* attempt left them, the entity at the snapshot and what datastore.Get and
\* datastore.Put return.
TxFunc(sp, cr, ent, c, now, getErr, putErr) ==
    IF getErr = "nil"
    THEN [s |-> ent, created |-> cr, put |-> FALSE, err |-> FALSE]
    ELSE IF getErr # "ErrNoSuchEntity"
    THEN [s |-> sp, created |-> cr, put |-> FALSE, err |-> TRUE]
    ELSE IF putErr # "nil"
    THEN [s |-> Snippet(now, c), created |-> cr, put |-> FALSE, err |-> TRUE]
    ELSE [s |-> Snippet(now, c), created |-> TRUE, put |-> TRUE, err |-> FALSE]

\* One attempt of RunInTransaction runs the function: it reads the entity
\* at the transaction's snapshot and, if there is none, buffers the Put of
\* a new one.  An error of the function ends RunInTransaction (400).
TxRun(p) ==
    /\ pc[p] = "tx"
    /\ \E getErr \in DatastoreGetErrs(store[keyName[p]]), putErr \in CallErrs :
        LET r == TxFunc(s[p], created[p], store[keyName[p]], content[p], clock,
                        getErr, putErr)
        IN  /\ (putErr # "nil" => getErr = "ErrNoSuchEntity")
            /\ s' = [s EXCEPT ![p] = r.s]
            /\ created' = [created EXCEPT ![p] = r.created]
            /\ clock' = IF getErr = "ErrNoSuchEntity" THEN clock + 1 ELSE clock
            /\ IF r.err
               THEN /\ Respond(p, 400, ErrorBody)
                    /\ Fail(p, IF getErr = "other" THEN "datastore.Get"
                                                   ELSE "datastore.Put")
                    /\ UNCHANGED <<snapVer, txPut>>
               ELSE /\ pc' = [pc EXCEPT ![p] = "commit"]
                    /\ snapVer' = [snapVer EXCEPT ![p] = version[keyName[p]]]
                    /\ txPut' = [txPut EXCEPT ![p] = r.put]
                    /\ UNCHANGED <<status, body, failedAt>>
    /\ UNCHANGED <<store, version, cache, request, attempt, wrote, via>>

\* postSnippets ignoring the created flag: always the memcache set and 201.
AfterTransactionAlwaysCreated(p) ==
    /\ pc' = [pc EXCEPT ![p] = "postCacheSet"]
    /\ UNCHANGED <<status, body>>

\* postSnippets once RunInTransaction has returned nil: on to the memcache
\* set if created, else 200 with the key name.
AfterTransaction(p) ==
    IF created[p]
    THEN /\ pc' = [pc EXCEPT ![p] = "postCacheSet"]
         /\ UNCHANGED <<status, body>>
    ELSE Respond(p, 200, KeyBody(keyName[p]))

\* A commit that never detects a change of the entity group.
ConflictNever(p) == FALSE

\* The commit of an attempt conflicts when the entity group has changed
\* since the attempt's snapshot.
Conflict(p) == version[keyName[p]] # snapVer[p]

\* A retry loop without a limit.
ExhaustedNever(n) == FALSE

\* RunInTransaction's loop has used up its attempts after n of them.
Exhausted(n) == n >= TxAttempts

\* The commit of an attempt.  It applies the buffered Put only if the
\* entity group is unchanged since the snapshot; if the group has changed
\* it is refused with ErrConcurrentTransaction, after which RunInTransaction
\* runs the function again unless the attempts are used up; it may fail
\* otherwise.
TxCommit(p) ==
    /\ pc[p] = "commit"
    /\ \/ /\ txPut[p] => ~Conflict(p)
          /\ IF txPut[p]
             THEN /\ store' = [store EXCEPT ![keyName[p]] = s[p]]
                  /\ version' = [version EXCEPT ![keyName[p]] = @ + 1]
             ELSE UNCHANGED <<store, version>>
          /\ wrote' = [wrote EXCEPT ![p] = txPut[p]]
          /\ AfterTransaction(p)
          /\ UNCHANGED <<attempt, failedAt>>
       \/ /\ Conflict(p)
          /\ attempt' = [attempt EXCEPT ![p] = @ + 1]
          /\ IF ~Exhausted(attempt[p] + 1)
             THEN /\ pc' = [pc EXCEPT ![p] = "tx"]
                  /\ UNCHANGED <<status, body, failedAt>>
             ELSE /\ Respond(p, 400, ErrorBody)
                  /\ Fail(p, "ErrConcurrentTransaction")
          /\ UNCHANGED <<store, version, wrote>>
       \/ /\ Respond(p, 400, ErrorBody)
          /\ Fail(p, "datastore.Commit")
          /\ UNCHANGED <<store, version, attempt, wrote>>
    /\ txPut' = [txPut EXCEPT ![p] = FALSE]
    /\ UNCHANGED <<cache, clock, request, s, created, snapVer, via>>

\* postSnippets swallowing the error of its memcache set: 201 either way.
PostCacheSetSwallow(p) ==
    /\ pc[p] = "postCacheSet"
    /\ \E err \in CallErrs :
        /\ cache' = IF err = "nil" THEN [cache EXCEPT ![keyName[p]] = s[p]] ELSE cache
        /\ Respond(p, 201, KeyBody(keyName[p]))
        /\ IF err = "nil" THEN UNCHANGED failedAt ELSE Fail(p, "memcache.Set")
    /\ UNCHANGED <<store, version, clock, request, s, txn, via>>

\* memcache.Gob.Set of postSnippets returns: 201 with the key name, or 400.
PostCacheSet(p) ==
    /\ pc[p] = "postCacheSet"
    /\ \E err \in CallErrs :
        IF err = "nil"
        THEN /\ cache' = SetItem(cache, keyName[p], s[p])
             /\ Respond(p, 201, KeyBody(keyName[p]))
             /\ UNCHANGED failedAt
        ELSE /\ Respond(p, 400, ErrorBody)
             /\ Fail(p, "memcache.Set")
             /\ UNCHANGED cache
    /\ UNCHANGED <<store, version, clock, request, s, txn, via>>

\* ------------------------------------------------------------- backend
\* memcache drops an item.
Evict(k) ==
    /\ cache[k] # None
    /\ cache' = [cache EXCEPT ![k] = None]
    /\ UNCHANGED <<store, version, clock, pc, request, s, txn, status, body,
                   failedAt, via>>

\* An administrator deletes an entity from the datastore.
AdminDelete(k) ==
    /\ store[k] # None
    /\ store' = [store EXCEPT ![k] = None]
    /\ version' = [version EXCEPT ![k] = @ + 1]
    /\ UNCHANGED <<cache, clock, pc, request, s, txn, status, body, failedAt, via>>

Step(p) ==
    \/ GetSnippets(p)
    \/ GetRoot(p)
    \/ CacheGet(p)
    \/ DatastoreGet(p)
    \/ CacheSet(p)
    \/ PostSnippets(p)
    \/ MethodNotAllowed(p)
    \/ TxRun(p)
    \/ TxCommit(p)
    \/ PostCacheSet(p)

Next ==
    \/ \E p \in Procs : Step(p)
    \/ \E k \in KeyNames : Evict(k)

\* The service without administrative deletion.
Spec == Init /\ [][Next]_vars

NextAdmin ==
    \/ Next
    \/ \E k \in KeyNames : AdminDelete(k)

\* The service with an administrator who may delete entities.
SpecAdmin == Init /\ [][NextAdmin]_vars

\* Contention on one key: every request is a read of the key of the
\* one-byte body or a write of that body, and the only error a request
\* meets is the transaction running out of attempts.
TheBody == Content(1, 97)

OneKey ==
    \A p \in Procs :
        /\ method[p] \in {"", "GET", "POST"}
        /\ method[p] = "GET" => path[p] = RootPath \o KeyName(TheBody)
        /\ method[p] = "POST" => /\ path[p] = RootPath
                                 /\ content[p] = TheBody
        /\ failedAt[p] \in {"", "ErrConcurrentTransaction"}

NextContend == NextAdmin /\ OneKey'

\* Every request that can take a step eventually takes one: each runs in
\* its own goroutine and every backend call returns, with a result or an
\* error.
Fairness == \A p \in Procs : WF_vars(Step(p) /\ OneKey')

\* Requests contending on one key, with the administrator, under fair
\* scheduling.
SpecContend == Init /\ [][NextContend]_vars /\ Fairness

\* ---------------------------------------------------------- vocabulary
\* A write request that got as far as the transaction.
IsWrite(p) == method[p] = "POST" /\ keyName[p] # <<>>

\* A read request for a key.
IsRead(p) == method[p] \in {"GET", "HEAD"} /\ keyName[p] # <<>>

Returned(p) == pc[p] = "done"

\* A write that answered 200 or 201.
Succeeded(p) == IsWrite(p) /\ Returned(p) /\ status[p] \in {200, 201}

\* No two requests overlap: each arrived after all earlier ones had returned.
Sequential ==
    \A a, b \in Procs : (a < b /\ pc[b] # "idle") => a \in before[b]

\* No backend call of any request has failed.
NoFaults == \A p \in Procs : failedAt[p] = ""

\* No earlier request wrote the same content.
FirstWrite(p) == \A r \in Procs : r < p => ~(IsWrite(r) /\ content[r] = content[p])

\* The writes of content c.
WritesOf(c) == { p \in Procs : IsWrite(p) /\ content[p] = c }

\* ----------------------------------------------------------------- C1
\* C1: when all the write requests carrying the same content have returned
\* without a storage error, exactly one of them answered 201 and the others
\* 200, all returned the same key and all hold the same CreatedAt.
C1_ExactlyOneCreated ==
    \A c \in Contents :
        (WritesOf(c) # {} /\ \A p \in WritesOf(c) : Succeeded(p))
        => /\ Cardinality({ p \in WritesOf(c) : status[p] = 201 }) = 1
           /\ \A p, q \in WritesOf(c) :
                /\ body[p] = body[q]
                /\ s[p].CreatedAt = s[q].CreatedAt

\* ----------------------------------------------------------------- C2
\* C2: without administrative deletion, at most one committed transaction
\* ever writes the entity of a key.  The entity group's version counts the
\* writes; it never exceeds one, the one write is that of the single request
\* whose committed attempt carried the Put, and the entity is that
\* request's snippet.
C2_AtMostOneDurableWrite ==
    \A k \in KeyNames :
        LET writers == { p \in Procs : wrote[p] /\ keyName[p] = k }
        IN  /\ version[k] <= 1
            /\ Cardinality(writers) = version[k]
            /\ (store[k] # None) <=> (version[k] = 1)
            /\ \A p \in writers : store[k] = s[p]

\* Two writes of the same key have both succeeded, one of them after an
\* aborted attempt.
C2_Witness ==
    \E p, q \in Procs :
        /\ p # q
        /\ Succeeded(p) /\ Succeeded(q)
        /\ keyName[p] = keyName[q]
        /\ wrote[p]
        /\ attempt[q] > 0
        /\ version[keyName[p]] = 1

\* ----------------------------------------------------------------- C3
\* C3: a write that succeeds answers 201 if and only if the attempt of this
\* request that committed wrote the entity (and 200 if and only if the
\* entity existed at that attempt), whatever the aborted attempts did.
C3_CreatedIffCommittedWrite ==
    \A p \in Procs :
        Succeeded(p) => ((status[p] = 201) <=> wrote[p])

\* ----------------------------------------------------------------- C4
\* C4: with no overlapping requests and no backend failure, of two writes of
\* the same content, the first being the first write of that content, the
\* first answers 201 and the second 200 with the same key, the second wrote
\* nothing and the datastore holds the one entity the first wrote.
C4_SequentialIdempotentWrite ==
    \A p, q \in Procs :
        ( /\ p < q
          /\ IsWrite(p) /\ IsWrite(q)
          /\ Returned(p) /\ Returned(q)
          /\ content[p] = content[q]
          /\ FirstWrite(p)
          /\ Sequential /\ NoFaults )
        => /\ status[p] = 201 /\ status[q] = 200
           /\ body[p] = KeyBody(KeyName(content[p]))
           /\ body[q] = body[p]
           /\ wrote[p] /\ ~wrote[q]
           /\ version[keyName[p]] = 1
           /\ store[keyName[p]] = s[p]
           /\ store[keyName[p]].Content = content[p]

\* Two sequential writes of the same content have returned.
C4_Witness ==
    \E p, q \in Procs :
        /\ p < q
        /\ IsWrite(p) /\ IsWrite(q)
        /\ Returned(p) /\ Returned(q)
        /\ content[p] = content[q]
        /\ FirstWrite(p)
        /\ Sequential /\ NoFaults
        /\ status[q] = 200

\* ----------------------------------------------------------------- C5
\* C5: a read of the key that a successful write of content c returned,
\* started after that write returned and meeting no backend error, answers
\* 200 with content c, whether the cache kept the item or not.
C5_RoundTrip ==
    \A w, r \in Procs :
        ( /\ Succeeded(w)
          /\ IsRead(r) /\ Returned(r)
          /\ w \in before[r]
          /\ path[r] = RootPath \o body[w].key
          /\ failedAt[r] = "" )
        => /\ status[r] = 200
           /\ body[r] = ContentBody(content[w])

\* A read after a successful write that found nothing in the cache and
\* answered from the datastore.
C5_Witness ==
    \E w, r \in Procs :
        /\ Succeeded(w)
        /\ IsRead(r) /\ Returned(r)
        /\ w \in before[r]
        /\ path[r] = RootPath \o body[w].key
        /\ via[r] = "datastore"
        /\ status[r] = 200
        /\ content[w].len = maxContentSizeInBytes

C7_AbsentKeyNotFound ==
    [][\A p \in Procs :
        ( /\ IsRead(p)
          /\ pc[p] # "done" /\ pc'[p] = "done"
          /\ store[keyName[p]] = None
          /\ version[keyName[p]] = arrVer[p]
          /\ failedAt'[p] = "" )
        => status'[p] = 404]_vars

\* ----------------------------------------------------------------- C8
\* C8: a read whose cache lookup failed with an error other than a miss
\* does not answer with an error: it answers 200 or 404 from the datastore.
C8_CacheGetErrorIsMiss ==
    \A p \in Procs :
        (IsRead(p) /\ Returned(p) /\ failedAt[p] = "memcache.Get")
        => status[p] \in {200, 404}

\* ----------------------------------------------------------------- C9
\* C9: a read that found the entity in the datastore and whose cache set
\* failed still answers 200 with the content.
C9_WarmFailureSwallowed ==
    \A p \in Procs :
        (IsRead(p) /\ Returned(p) /\ failedAt[p] = "memcache.Set")
        => /\ status[p] = 200
           /\ body[p] = ContentBody(s[p].Content)

C11_SizeBoundary ==
    [][\A p \in Procs :
        ( /\ pc[p] = "idle" /\ pc'[p] # "idle"
          /\ method'[p] = "POST" /\ path'[p] = RootPath
          /\ failedAt'[p] = "" )
        => /\ content'[p].len >= maxContentSizeInBytes + 1
                => /\ pc'[p] = "done"
                   /\ status'[p] = 400
                   /\ keyName'[p] = <<>>
                   /\ UNCHANGED <<store, version, cache>>
           /\ content'[p].len <= maxContentSizeInBytes
                => /\ pc'[p] = "tx"
                   /\ status'[p] = 0
                   /\ keyName'[p] = KeyName(content'[p])]_vars

\* A body of limit + 1 bytes has been rejected and a body of exactly the
\* limit has been stored.
C11_Witness ==
    \E p, q \in Procs :
        /\ method[p] = "POST" /\ Returned(p) /\ status[p] = 400
        /\ content[p].len = maxContentSizeInBytes + 1
        /\ Succeeded(q) /\ status[q] = 201
        /\ content[q].len = maxContentSizeInBytes
        /\ store[keyName[q]].Content = content[q]

\* ---------------------------------------------------------------- C12
\* Errors that end RunInTransaction.
TxErrors == {"datastore.Get", "datastore.Put", "datastore.Commit",
             "ErrConcurrentTransaction"}

\* C12: a write whose memcache set fails answers 400; a write whose
\* transaction fails answers 400 in that very step, from the transaction,
\* without a memcache set (memcache is unchanged and the request is over).
C12_WriteFailuresAre400 ==
    [][\A p \in Procs :
        /\ ( /\ pc[p] = "postCacheSet"
             /\ failedAt'[p] = "memcache.Set" )
           => /\ pc'[p] = "done"
              /\ status'[p] = 400
              /\ body'[p] = ErrorBody
        /\ ( /\ IsWrite(p)
             /\ failedAt[p] = "" /\ failedAt'[p] \in TxErrors )
           => /\ pc[p] \in {"tx", "commit"}
              /\ pc'[p] = "done"
              /\ status'[p] = 400
              /\ body'[p] = ErrorBody
              /\ cache' = cache]_vars

\* A write that created the entity has answered 400 after its memcache set
\* failed, and a write has answered 400 after its attempts were used up.
C12_Witness ==
    \E p, q \in Procs :
        /\ IsWrite(p) /\ wrote[p]
        /\ failedAt[p] = "memcache.Set" /\ status[p] = 400
        /\ IsWrite(q)
        /\ failedAt[q] = "ErrConcurrentTransaction" /\ status[q] = 400
        /\ attempt[q] = TxAttempts

\* ---------------------------------------------------------------- C13
\* C13: no step of a request changes, overwrites or removes an existing
\* entity: a step that changes the entity or the version of a key that has
\* an entity is the administrator's deletion and moves no request; and a
\* step that gives a key an entity stores a snippet whose content hashes to
\* that key.
C13_RecordsImmutable ==
    [][\A k \in KeyNames :
        /\ ( /\ store[k] # None
             /\ store'[k] # store[k] \/ version'[k] # version[k] )
           => /\ store'[k] = None
              /\ pc' = pc /\ status' = status
        /\ ( /\ store[k] = None
             /\ store'[k] # None )
           => /\ KeyName(store'[k].Content) = k
              /\ store'[k].CreatedAt >= 1]_vars

\* An entity exists while a write of its key that had to retry has found it
\* and a read of its key has returned.
C13_Witness ==
    \E w, r \in Procs :
        /\ Succeeded(w) /\ ~wrote[w] /\ attempt[w] > 0
        /\ store[keyName[w]] = s[w]
        /\ IsRead(r) /\ Returned(r) /\ status[r] = 200
        /\ keyName[r] = keyName[w]

\* ---------------------------------------------------------------- C14
\* C14: without administrative deletion, every memcache item equals the
\* entity the datastore holds under the same key (content and CreatedAt),
\* so no item exists for a key without a committed entity.
C14_CacheCoherence ==
    \A k \in KeyNames :
        cache[k] # None
        => /\ store[k] # None
           /\ cache[k].Content = store[k].Content
           /\ cache[k].CreatedAt = store[k].CreatedAt

\* memcache holds an item for a key after a write that lost the creation
\* race, and retried, answered 201.
C14_Witness ==
    \E p \in Procs :
        /\ Succeeded(p) /\ status[p] = 201
        /\ ~wrote[p] /\ attempt[p] > 0
        /\ cache[keyName[p]] # None

\* ---------------------------------------------------------------- C15
\* C15: a read whose memcache lookup finds an item answers 200 with the
\* item's content in that step and makes no further call, leaving memcache
\* and the datastore unchanged; and every read starts with the memcache
\* lookup and reaches the datastore lookup only from it.
C15_CacheHitReturnsImmediately ==
    [][\A p \in Procs :
        /\ ( /\ pc[p] = "cacheGet" /\ pc'[p] # "cacheGet"
             /\ cache[keyName[p]] # None
             /\ failedAt'[p] = "" )
           => /\ pc'[p] = "done"
              /\ status'[p] = 200
              /\ body'[p] = ContentBody(cache[keyName[p]].Content)
              /\ UNCHANGED <<store, version, cache>>
        /\ (IsRead(p)' /\ pc[p] = "idle" /\ pc'[p] # "idle")
           => pc'[p] = "cacheGet"
        /\ (pc'[p] = "dsGet" /\ pc[p] # "dsGet")
           => pc[p] = "cacheGet" /\ cache[keyName[p]] = None]_vars

\* A read has been answered from memcache while the item was there.
C15_Witness ==
    \E p \in Procs :
        /\ IsRead(p) /\ Returned(p)
        /\ via[p] = "cache" /\ status[p] = 200
        /\ body[p] = ContentBody(cache[keyName[p]].Content)

\* ---------------------------------------------------------------- C16
\* C16: a write reaches its memcache set only when the attempt of it that
\* committed wrote the entity; a write that found the entity already stored
\* at its committed attempt makes no memcache set.
C16_CacheSetOnlyByCreator ==
    \A p \in Procs :
        (IsWrite(p) /\ pc[p] = "postCacheSet") => wrote[p]

\* ---------------------------------------------------------------- C17
\* C17: a write whose transaction ended in an error has written no entity;
\* a step of a request changes the entity of a key only as the commit of an
\* attempt that buffered a Put, at the very version the attempt read at,
\* where it found no entity, and it stores that attempt's snippet; no other
\* step of a transaction touches the datastore.
C17_TransactionAtomic ==
    [][/\ \A p \in Procs :
            (IsWrite(p) /\ failedAt'[p] \in TxErrors) => ~wrote'[p]
       /\ \A k \in KeyNames :
            (pc' # pc /\ (store'[k] # store[k] \/ version'[k] # version[k]))
            => \E p \in Procs :
                /\ pc[p] = "commit" /\ pc'[p] # "commit"
                /\ keyName[p] = k
                /\ txPut[p]
                /\ version[k] = snapVer[p]
                /\ store[k] = None
                /\ store'[k] = s[p]
                /\ version'[k] = version[k] + 1
                /\ failedAt'[p] = ""
                /\ wrote'[p]]_vars

\* A write has used up its attempts, the last of which had buffered a Put
\* of its own snippet; the datastore holds another request's entity.
C17_Witness ==
    \E p \in Procs :
        /\ IsWrite(p) /\ Returned(p)
        /\ failedAt[p] = "ErrConcurrentTransaction"
        /\ created[p] /\ ~wrote[p]
        /\ s[p].Content = content[p]
        /\ store[keyName[p]] # None
        /\ store[keyName[p]] # s[p]

\* ---------------------------------------------------------------- C18
\* C18: after a write that created the entity and then failed at its
\* memcache set (400), the entity stays in the datastore, and no write of
\* the same content ever answers 201.
C18_FailedPopulationKeepsRecord ==
    \A w \in Procs :
        (IsWrite(w) /\ Returned(w) /\ wrote[w] /\ failedAt[w] = "memcache.Set")
        => /\ status[w] = 400
           /\ store[keyName[w]] = s[w]
           /\ \A x \in WritesOf(content[w]) : status[x] # 201

\* ---------------------------------------------------------------- C19
\* Order of the positions of a request along its handler.
Rank(l) ==
    CASE l = "idle" -> 0
      [] l \in {"cacheGet", "tx"} -> 1
      [] l \in {"dsGet", "commit"} -> 2
      [] l \in {"cacheSet", "postCacheSet"} -> 3
      [] OTHER -> 4

====
